---- MODULE Spec2Model ----
(***************************************************************************)
(* Retention engine of apply-retention-policy: the five-tier cascade of    *)
(* Policy.Apply (calendar-aligned and duration-based variants), and the    *)
(* prune command that lists, applies the policy and deletes.               *)
(*                                                                         *)
(* A file.Info is a record [Path, Timestamp]; Timestamp is minutes since   *)
(* the Unix epoch in UTC (file names carry minute resolution).  Size is    *)
(* never read by the engine and is left out.                               *)
(***************************************************************************)
EXTENDS Integers, Sequences, FiniteSets, TLC

VARIABLES
    variant,      \* which Apply is linked: "calendar" or "duration"
    now,          \* the `now` argument of the duration-based Apply
    policy,       \* config.Retention: five keep-counts
    files,        \* the caller's slice handed to Apply (backing array contents)
    given,        \* the caller's slice as it was when Apply was called
    run,          \* 1: first Apply; 2: Apply on the survivors of the first
    pc,           \* position of the caller
    hourlyFiles, dailyFiles, weeklyFiles, monthlyFiles, yearlyFiles,
    candidates,   \* the list each tier's groupFilesByPeriod was called with
    toDelete,     \* the list Apply returns
    err,          \* the error Apply returns
    pruned,       \* the list the first Apply returned, once the caller re-applies
    ctxDone,      \* the command's context is cancelled
    disk,         \* the backup directory: path -> [Timestamp, kind]
    dryRun,       \* cfg.DryRun
    k,            \* index of the delete loop of the prune command
    calls,        \* the DeleteFile calls made so far, with their results
    result,       \* the error the prune command returns
    cfg,          \* the configuration file the prune command was given
    maxDuration,  \* what GetRetentionDuration returned
    grouper,      \* the bucket function handed to groupFilesByTimePeriod
    periodGroups  \* what groupFilesByTimePeriod returned

applyVars == <<hourlyFiles, dailyFiles, weeklyFiles, monthlyFiles, yearlyFiles,
               candidates, toDelete, err>>

pruneVars == <<ctxDone, disk, dryRun, k, calls, result, cfg,
              maxDuration, grouper, periodGroups>>

vars == <<variant, now, policy, files, given, run, pc, applyVars, pruned,
          pruneVars>>

----------------------------------------------------------------------------
(* Bounds of the model *)

MaxFiles == 3
MaxKeep == 1

----------------------------------------------------------------------------
(* Calendar arithmetic of package time, in UTC *)

MinutesPerHour == 60
MinutesPerDay == 1440

\* Go's integer division truncates toward zero
GoDiv(a, b) == IF a >= 0 THEN a \div b ELSE -((-a) \div b)

\* days since 1970-01-01 of a civil date (proleptic Gregorian)
DaysFromCivil(y, m, d) ==
    LET yy == IF m <= 2 THEN y - 1 ELSE y
        era == yy \div 400
        yoe == yy - era * 400
        mp == IF m > 2 THEN m - 3 ELSE m + 9
        doy == (153 * mp + 2) \div 5 + d - 1
        doe == yoe * 365 + yoe \div 4 - yoe \div 100 + doy
    IN era * 146097 + doe - 719468

\* the civil date of a day number
CivilFromDays(z0) ==
    LET z == z0 + 719468
        era == z \div 146097
        doe == z - era * 146097
        yoe == (doe - doe \div 1460 + doe \div 36524 - doe \div 146096) \div 365
        doy == doe - (365 * yoe + yoe \div 4 - yoe \div 100)
        mp == (5 * doy + 2) \div 153
        d == doy - (153 * mp + 2) \div 5 + 1
        m == IF mp < 10 THEN mp + 3 ELSE mp - 9
        y == yoe + era * 400 + (IF m <= 2 THEN 1 ELSE 0)
    IN [year |-> y, month |-> m, day |-> d]

\* time.Date(y, m, d, h, mi, 0, 0, time.UTC), in minutes since the epoch
Date(y, m, d, h, mi) ==
    DaysFromCivil(y, m, d) * MinutesPerDay + h * MinutesPerHour + mi

Year(t) == CivilFromDays(t \div MinutesPerDay).year
Month(t) == CivilFromDays(t \div MinutesPerDay).month
Day(t) == CivilFromDays(t \div MinutesPerDay).day
Hour(t) == (t % MinutesPerDay) \div MinutesPerHour

\* Time.Unix() of a Date: seconds since the epoch
Unix(t) == t * 60

\* Time.ISOWeek(): the ISO 8601 year and week number
ISOWeek(t) ==
    LET days == t \div MinutesPerDay
        wd == (days + 3) % 7            \* Monday = 0
        thursday == days - wd + 3
        y == CivilFromDays(thursday).year
        yday == thursday - DaysFromCivil(y, 1, 1)
    IN [year |-> y, week |-> yday \div 7 + 1]

----------------------------------------------------------------------------
(* Bucket keys *)

weekMultiplier == 100

hourGrouper(f) ==
    Unix(Date(Year(f.Timestamp), Month(f.Timestamp), Day(f.Timestamp),
              Hour(f.Timestamp), 0))

dayGrouper(f) ==
    Unix(Date(Year(f.Timestamp), Month(f.Timestamp), Day(f.Timestamp), 0, 0))

weekGrouper(f) ==
    ISOWeek(f.Timestamp).year * weekMultiplier + ISOWeek(f.Timestamp).week

monthGrouper(f) ==
    Unix(Date(Year(f.Timestamp), Month(f.Timestamp), 1, 0, 0))

yearGrouper(f) ==
    Unix(Date(Year(f.Timestamp), 1, 1, 0, 0))

Tiers == <<"hourly", "daily", "weekly", "monthly", "yearly">>

\* the grouper Apply passes at each tier (calendar-aligned variant)
CalendarKey(tier, f) ==
    CASE tier = "hourly" -> hourGrouper(f)
      [] tier = "daily" -> dayGrouper(f)
      [] tier = "weekly" -> weekGrouper(f)
      [] tier = "monthly" -> monthGrouper(f)
      [] tier = "yearly" -> yearGrouper(f)

\* consts.HOUR .. consts.YEAR, in minutes
HOUR == MinutesPerHour
DAY == 24 * HOUR
WEEK == 7 * DAY
MONTH == 30 * DAY
YEAR == 365 * DAY

Period(tier) ==
    CASE tier = "hourly" -> HOUR
      [] tier = "daily" -> DAY
      [] tier = "weekly" -> WEEK
      [] tier = "monthly" -> MONTH
      [] tier = "yearly" -> YEAR

\* the duration-based bucket index replaced by the calendar bucket
DurationKey_Calendar(tier, f, n) == CalendarKey(tier, f)

\* now.Sub(f.Timestamp) / period of the duration-based variant
DurationKey(tier, f, n) == GoDiv(n - f.Timestamp, Period(tier))

\* the timestamps the inputs are drawn from.  Friday 2024-03-01 has two in
\* one hour and a third in another hour; Thursday 2024-02-29 is in the same ISO
\* week but another month; 2024-03-15 is in the same month but another week;
\* 2023-12-31 is in another year.  The five bucket functions partition them
\* in five different ways.
Times ==
    {Date(2024, 3, 15, 6, 0),
     Date(2024, 3, 1, 12, 30), Date(2024, 3, 1, 12, 0), Date(2024, 3, 1, 10, 0),
     Date(2024, 2, 29, 9, 0),
     Date(2023, 12, 31, 23, 0)}

\* the timestamps of the files of the command's test
PruneTimes ==
    {Date(2024, 3, 15, 12, 0), Date(2024, 3, 15, 11, 0),
     Date(2024, 3, 15, 10, 0), Date(2024, 3, 14, 0, 0)}

\* the `now` of the retention test and two others: from the second, three
\* hours back cross a day and a month; from the third, a year
ScenarioNows ==
    {Date(2024, 3, 15, 12, 0), Date(2024, 3, 1, 1, 30), Date(2024, 1, 1, 2, 0)}

\* the offsets from `now`, in hours, of the sixteen files of the retention
\* test, in the order of the test
TestOffsets ==
    <<1, 2, 3, 4, 36, 60, 84, 108, 7 * 24, 14 * 24, 21 * 24, 29 * 24, 59 * 24,
      90 * 24, 366 * 24, 731 * 24>>

\* now.Add(-h * time.Hour)
HoursBefore(n, h) == n - h * MinutesPerHour

\* the offsets from `now`, in minutes, of the four files of the basic
\* grouping test, in the order of the test
GroupingOffsets == <<0, 30, 90, 120>>

ScenarioTimes ==
    {HoursBefore(n, h) : n \in ScenarioNows, h \in 0..3}
      \cup {HoursBefore(Date(2024, 3, 15, 12, 0), TestOffsets[i]) :
                i \in 1..Len(TestOffsets)}
      \cup {Date(2024, 3, 15, 12, 0) - GroupingOffsets[i] :
                i \in 1..Len(GroupingOffsets)}

\* the `now` of the duration-based variant; two timestamps lie after it
Nows == {Date(2024, 3, 1, 12, 15)}

\* the bucket key of every timestamp at every tier, computed once
KeyTable ==
    [v \in {"calendar", "duration"} |-> [tier \in {"hourly", "daily",
                                          "weekly", "monthly", "yearly"} |->
        [t \in Times \cup PruneTimes \cup ScenarioTimes |-> [n \in Nows |->
            IF v = "calendar" THEN CalendarKey(tier, [Timestamp |-> t])
            ELSE DurationKey(tier, [Timestamp |-> t], n)]]]]

\* grouper(f) as groupFilesByTimePeriod evaluates it
KeyOf(v, tier, f, n) == KeyTable[v][tier][f.Timestamp][n]

KeepCount(p, tier) ==
    CASE tier = "hourly" -> p.Hourly
      [] tier = "daily" -> p.Daily
      [] tier = "weekly" -> p.Weekly
      [] tier = "monthly" -> p.Monthly
      [] tier = "yearly" -> p.Yearly

----------------------------------------------------------------------------
(* Sequences *)

Range(s) == {s[i] : i \in 1..Len(s)}

Tail1(s) == SubSeq(s, 2, Len(s))

\* every arrangement of the records of S that is newest-first
\* the comparator with its arguments swapped: oldest first
RECURSIVE SortedOrders_Ascending(_)
SortedOrders_Ascending(S) ==
    IF S = {} THEN {<<>>}
    ELSE LET oldest == {x \in S : \A y \in S : y.Timestamp >= x.Timestamp}
         IN UNION {{<<x>> \o r : r \in SortedOrders_Ascending(S \ {x})} :
                      x \in oldest}

RECURSIVE SortedOrders(_)
SortedOrders(S) ==
    IF S = {} THEN {<<>>}
    ELSE LET newest == {x \in S : \A y \in S : y.Timestamp <= x.Timestamp}
         IN UNION {{<<x>> \o r : r \in SortedOrders(S \ {x})} : x \in newest}

\* no record is followed by a newer one
IsSortedFunc(s) ==
    \A i \in 1..(Len(s) - 1) : s[i].Timestamp >= s[i + 1].Timestamp

\* the list left in the order it was given
SortFunc_NoSort(s) == {s}

\* slices.SortFunc with b.Timestamp.Compare(a.Timestamp), and sort.Slice with
\* Timestamp.After.  The sort is not stable: records of equal timestamp may
\* come out in any order.  A list that is already newest-first comes back as
\* it is (insertion sort for short lists, and the pattern-defeating quicksort
\* returns after its scan finds no record out of order).
SortFunc(s) == IF IsSortedFunc(s) THEN {s} ELSE SortedOrders(Range(s))

----------------------------------------------------------------------------
(* The grouping pass shared by both variants *)

\* the group still being filled when the list ends is forgotten
RECURSIVE GroupLoop_NoLastGroup(_, _, _, _, _)
GroupLoop_NoLastGroup(s, key, i, groups, currentGroup) ==
    IF i > Len(s)
    THEN groups
    ELSE IF Len(currentGroup) = 0 \/ key[s[i]] = key[currentGroup[1]]
         THEN GroupLoop_NoLastGroup(s, key, i + 1, groups,
                                    Append(currentGroup, s[i]))
         ELSE GroupLoop_NoLastGroup(s, key, i + 1,
                                    IF Len(currentGroup) > 0
                                    THEN Append(groups, currentGroup)
                                    ELSE groups,
                                    <<s[i]>>)

\* the loop of groupFilesByTimePeriod over the sorted list s, from index i,
\* with the groups closed so far and the group being filled
RECURSIVE GroupLoop(_, _, _, _, _)
GroupLoop(s, key, i, groups, currentGroup) ==
    IF i > Len(s)
    THEN IF Len(currentGroup) > 0 THEN Append(groups, currentGroup) ELSE groups
    ELSE IF Len(currentGroup) = 0 \/ key[s[i]] = key[currentGroup[1]]
         THEN GroupLoop(s, key, i + 1, groups, Append(currentGroup, s[i]))
         ELSE GroupLoop(s, key, i + 1,
                        IF Len(currentGroup) > 0
                        THEN Append(groups, currentGroup) ELSE groups,
                        <<s[i]>>)

\* the groups for each order the sort may give; the caller's list is cloned
groupFilesByTimePeriod(fs, key) ==
    {GroupLoop(s, key, 1, <<>>, <<>>) : s \in SortFunc(fs)}

groupResult(selected, toDel, unselected) ==
    [selected |-> selected, toDelete |-> toDel, unselected |-> unselected]

\* a tier counted as full one bucket early
RECURSIVE SelectLoop_OneShort(_, _, _, _, _, _)
SelectLoop_OneShort(groups, keepCount, i, selected, toDel, unselected) ==
    IF i > Len(groups)
    THEN groupResult(selected, toDel, unselected)
    ELSE IF Len(selected) + 1 >= keepCount
         THEN SelectLoop_OneShort(groups, keepCount, i + 1, selected, toDel,
                                  unselected \o groups[i])
         ELSE SelectLoop_OneShort(groups, keepCount, i + 1,
                         Append(selected, groups[i][1]),
                         IF Len(groups[i]) > 1
                         THEN toDel \o Tail1(groups[i]) ELSE toDel,
                         unselected)

\* the selected record is also carried to the next tier
RECURSIVE SelectLoop_CarrySelected(_, _, _, _, _, _)
SelectLoop_CarrySelected(groups, keepCount, i, selected, toDel, unselected) ==
    IF i > Len(groups)
    THEN groupResult(selected, toDel, unselected)
    ELSE IF Len(selected) = keepCount
         THEN SelectLoop_CarrySelected(groups, keepCount, i + 1, selected,
                                       toDel, unselected \o groups[i])
         ELSE SelectLoop_CarrySelected(groups, keepCount, i + 1,
                         Append(selected, groups[i][1]),
                         IF Len(groups[i]) > 1
                         THEN toDel \o Tail1(groups[i]) ELSE toDel,
                         Append(unselected, groups[i][1]))

\* the keep-count is compared with the files handled, not the buckets kept
RECURSIVE SelectLoop_CountFiles(_, _, _, _, _, _)
SelectLoop_CountFiles(groups, keepCount, i, selected, toDel, unselected) ==
    IF i > Len(groups)
    THEN groupResult(selected, toDel, unselected)
    ELSE IF Len(selected) + Len(toDel) = keepCount
         THEN SelectLoop_CountFiles(groups, keepCount, i + 1, selected, toDel,
                                    unselected \o groups[i])
         ELSE SelectLoop_CountFiles(groups, keepCount, i + 1,
                         Append(selected, groups[i][1]),
                         IF Len(groups[i]) > 1
                         THEN toDel \o Tail1(groups[i]) ELSE toDel,
                         unselected)

\* the keep-count test is > instead of ==
RECURSIVE SelectLoop_GreaterThan(_, _, _, _, _, _)
SelectLoop_GreaterThan(groups, keepCount, i, selected, toDel, unselected) ==
    IF i > Len(groups)
    THEN groupResult(selected, toDel, unselected)
    ELSE IF Len(selected) > keepCount
         THEN SelectLoop_GreaterThan(groups, keepCount, i + 1, selected, toDel,
                                     unselected \o groups[i])
         ELSE SelectLoop_GreaterThan(groups, keepCount, i + 1,
                         Append(selected, groups[i][1]),
                         IF Len(groups[i]) > 1
                         THEN toDel \o Tail1(groups[i]) ELSE toDel,
                         unselected)

\* the siblings of a selected record are carried to the next tier
RECURSIVE SelectLoop_CarrySiblings(_, _, _, _, _, _)
SelectLoop_CarrySiblings(groups, keepCount, i, selected, toDel, unselected) ==
    IF i > Len(groups)
    THEN groupResult(selected, toDel, unselected)
    ELSE IF Len(selected) = keepCount
         THEN SelectLoop_CarrySiblings(groups, keepCount, i + 1, selected,
                                       toDel, unselected \o groups[i])
         ELSE SelectLoop_CarrySiblings(groups, keepCount, i + 1,
                         Append(selected, groups[i][1]),
                         toDel,
                         IF Len(groups[i]) > 1
                         THEN unselected \o Tail1(groups[i]) ELSE unselected)

\* the loop of groupFilesByPeriod over the groups, from group i
RECURSIVE SelectLoop(_, _, _, _, _, _)
SelectLoop(groups, keepCount, i, selected, toDel, unselected) ==
    IF i > Len(groups)
    THEN groupResult(selected, toDel, unselected)
    ELSE IF Len(selected) = keepCount
         THEN SelectLoop(groups, keepCount, i + 1, selected, toDel,
                         unselected \o groups[i])
         ELSE SelectLoop(groups, keepCount, i + 1,
                         Append(selected, groups[i][1]),
                         IF Len(groups[i]) > 1
                         THEN toDel \o Tail1(groups[i]) ELSE toDel,
                         unselected)

\* calendar-aligned variant: every result the call may return
groupFilesByPeriod(fs, key, keepCount) ==
    {SelectLoop(groups, keepCount, 1, <<>>, <<>>, <<>>) :
        groups \in groupFilesByTimePeriod(fs, key)}

\* duration-based variant: the method sorts its argument in place, then groups
\* and selects; `sorted` is the argument's backing array after the call
durationGroupFilesByPeriod(fs, key, keepCount) ==
    {[sorted |-> s,
      result |-> SelectLoop(GroupLoop(s, key, 1, <<>>, <<>>), keepCount, 1,
                            <<>>, <<>>, <<>>)] : s \in SortFunc(fs)}

KeyFn(v, tier, fs, n) == [f \in Range(fs) |-> KeyOf(v, tier, f, n)]

----------------------------------------------------------------------------
(* Inputs *)

Policies ==
    [Hourly : 0..MaxKeep, Daily : 0..MaxKeep, Weekly : 0..MaxKeep,
     Monthly : 0..MaxKeep, Yearly : 0..MaxKeep]

\* a list of records with distinct paths: the i-th record has path i
MakeFiles(ts) == [i \in 1..Len(ts) |-> [Path |-> i, Timestamp |-> ts[i]]]

Inputs == UNION {{MakeFiles(ts) : ts \in [1..n -> Times]} : n \in 0..MaxFiles}

NoResult == groupResult(<<>>, <<>>, <<>>)

\* an error is the chain of messages wrapped with %w, outermost first; nil is
\* the empty chain
NilErr == <<>>

Canceled == "context canceled"

\* errors.Is(e, target)
ErrorIs(e, target) == target \in Range(e)

NoDisk == <<>>

NoCandidates == [t \in Range(Tiers) |-> <<>>]

\* a time.Duration is an int64 count of nanoseconds.  Every duration of the
\* model is a whole number of hours taken modulo 2^64: `hours` is the number
\* of hours before the reduction and `wraps` the number of times 2^64 ns was
\* taken off to bring the value into the int64 range.
NoDuration == [hours |-> 0, wraps |-> 0]

\* no bucket function chosen, and the nil slice of groups
NoGrouper == "none"
NoGroups == <<>>

\* the zero value of config.Config, before any file is loaded
NoConfig ==
    [readable |-> FALSE,
     Retention |-> [Hourly |-> 0, Daily |-> 0, Weekly |-> 0, Monthly |-> 0,
                    Yearly |-> 0],
     FilePattern |-> "",
     Directory |-> "",
     DryRun |-> FALSE]

InitWith(v) ==
    /\ variant = v
    /\ now \in Nows
    /\ policy \in Policies
    /\ files \in Inputs
    /\ given = files
    /\ run = 1
    /\ pc = "call"
    /\ hourlyFiles = NoResult
    /\ dailyFiles = NoResult
    /\ weeklyFiles = NoResult
    /\ monthlyFiles = NoResult
    /\ yearlyFiles = NoResult
    /\ candidates = NoCandidates
    /\ toDelete = <<>>
    /\ err = NilErr
    /\ pruned = <<>>
    /\ ctxDone = FALSE
    /\ disk = NoDisk
    /\ dryRun = FALSE
    /\ k = 1
    /\ calls = <<>>
    /\ result = NilErr
    /\ cfg = NoConfig
    /\ maxDuration = NoDuration
    /\ grouper = NoGrouper
    /\ periodGroups = NoGroups

----------------------------------------------------------------------------
(* Policy.Apply *)

\* an empty list reported as an error
ApplyEmpty_Error ==
    /\ pc = "call"
    /\ Len(files) = 0
    /\ toDelete' = <<>>
    /\ err' = <<"no files">>
    /\ pc' = "returned"
    /\ UNCHANGED <<variant, now, policy, files, given, run, hourlyFiles,
                   dailyFiles, weeklyFiles, monthlyFiles, yearlyFiles,
                   candidates, pruned, pruneVars>>

\* Apply returns nil, nil for an empty list before any tier runs
ApplyEmpty ==
    /\ pc = "call"
    /\ Len(files) = 0
    /\ toDelete' = <<>>
    /\ err' = NilErr
    /\ pc' = "returned"
    /\ UNCHANGED <<variant, now, policy, files, given, run, hourlyFiles,
                   dailyFiles, weeklyFiles, monthlyFiles, yearlyFiles,
                   candidates, pruned, pruneVars>>

\* the final append of the yearly tier's unselected records left out
Collect_NoRest(h, d, w, m, y) ==
    h.toDelete \o d.toDelete \o w.toDelete \o m.toDelete \o y.toDelete

\* the list Apply returns from the five tier results
Collect(h, d, w, m, y) ==
    h.toDelete \o d.toDelete \o w.toDelete \o m.toDelete \o y.toDelete
      \o y.unselected

\* calendar-aligned Apply
ApplyCalendar ==
    /\ pc = "call"
    /\ variant = "calendar"
    /\ Len(files) # 0
    /\ \E h \in groupFilesByPeriod(files,
                    KeyFn("calendar", "hourly", files, now), policy.Hourly) :
       \E d \in groupFilesByPeriod(h.unselected,
                    KeyFn("calendar", "daily", h.unselected, now), policy.Daily) :
       \E w \in groupFilesByPeriod(d.unselected,
                    KeyFn("calendar", "weekly", d.unselected, now), policy.Weekly) :
       \E m \in groupFilesByPeriod(w.unselected,
                    KeyFn("calendar", "monthly", w.unselected, now), policy.Monthly) :
       \E y \in groupFilesByPeriod(m.unselected,
                    KeyFn("calendar", "yearly", m.unselected, now), policy.Yearly) :
          /\ hourlyFiles' = h
          /\ dailyFiles' = d
          /\ weeklyFiles' = w
          /\ monthlyFiles' = m
          /\ yearlyFiles' = y
          /\ candidates' = [t \in Range(Tiers) |->
                              CASE t = "hourly" -> files
                                [] t = "daily" -> h.unselected
                                [] t = "weekly" -> d.unselected
                                [] t = "monthly" -> w.unselected
                                [] t = "yearly" -> m.unselected]
          /\ toDelete' = Collect(h, d, w, m, y)
    /\ err' = NilErr
    /\ pc' = "returned"
    /\ UNCHANGED <<variant, now, policy, files, given, run, pruned, pruneVars>>

\* duration-based Apply: the first tier sorts the caller's slice in place; the
\* later tiers sort the fresh `unselected` slice of the tier before
ApplyDuration ==
    /\ pc = "call"
    /\ variant = "duration"
    /\ Len(files) # 0
    /\ \E h \in durationGroupFilesByPeriod(files,
                    KeyFn("duration", "hourly", files, now), policy.Hourly) :
       \E d \in durationGroupFilesByPeriod(h.result.unselected,
                    KeyFn("duration", "daily", h.result.unselected, now),
                    policy.Daily) :
       \E w \in durationGroupFilesByPeriod(d.result.unselected,
                    KeyFn("duration", "weekly", d.result.unselected, now),
                    policy.Weekly) :
       \E m \in durationGroupFilesByPeriod(w.result.unselected,
                    KeyFn("duration", "monthly", w.result.unselected, now),
                    policy.Monthly) :
       \E y \in durationGroupFilesByPeriod(m.result.unselected,
                    KeyFn("duration", "yearly", m.result.unselected, now),
                    policy.Yearly) :
          /\ files' = h.sorted
          /\ hourlyFiles' = h.result
          /\ dailyFiles' = d.result
          /\ weeklyFiles' = w.result
          /\ monthlyFiles' = m.result
          /\ yearlyFiles' = y.result
          /\ candidates' = [t \in Range(Tiers) |->
                              CASE t = "hourly" -> files
                                [] t = "daily" -> h.result.unselected
                                [] t = "weekly" -> d.result.unselected
                                [] t = "monthly" -> w.result.unselected
                                [] t = "yearly" -> m.result.unselected]
          /\ toDelete' = Collect(h.result, d.result, w.result, m.result,
                                 y.result)
    /\ err' = NilErr
    /\ pc' = "returned"
    /\ UNCHANGED <<variant, now, policy, given, run, pruned, pruneVars>>

\* the records of the caller's list that Apply did not return for deletion
Survivors == SelectSeq(files, LAMBDA f : f \notin Range(toDelete))

\* the caller applies the same policy again to the surviving records
Reapply ==
    /\ pc = "returned"
    /\ run = 1
    /\ files' = Survivors
    /\ given' = Survivors
    /\ run' = 2
    /\ pc' = "call"
    /\ hourlyFiles' = NoResult
    /\ dailyFiles' = NoResult
    /\ weeklyFiles' = NoResult
    /\ monthlyFiles' = NoResult
    /\ yearlyFiles' = NoResult
    /\ candidates' = NoCandidates
    /\ toDelete' = <<>>
    /\ err' = NilErr
    /\ pruned' = toDelete
    /\ UNCHANGED <<variant, now, policy, pruneVars>>

\* the calendar-aligned Apply, applied and re-applied
Init == InitWith("calendar")

Next == ApplyEmpty \/ ApplyCalendar \/ Reapply

Spec == Init /\ [][Next]_vars

\* one call of the calendar-aligned Apply
NextOnce == ApplyEmpty \/ ApplyCalendar

SpecOnce == Init /\ [][NextOnce]_vars

\* the duration-based Apply, applied and re-applied
InitDuration == InitWith("duration")

NextDuration == ApplyEmpty \/ ApplyDuration \/ Reapply

SpecDuration == InitDuration /\ [][NextDuration]_vars

\* either Apply
InitBoth == Init \/ InitDuration

NextBoth == ApplyEmpty \/ ApplyCalendar \/ ApplyDuration \/ Reapply

SpecBoth == InitBoth /\ [][NextBoth]_vars

----------------------------------------------------------------------------
(* The calendar-aligned Apply on the inputs of the documented scenarios *)

\* the policy of the retention test
TestPolicy ==
    [Hourly |-> 2, Daily |-> 3, Weekly |-> 2, Monthly |-> 2, Yearly |-> 1]

\* the sixteen files of the retention test
TestFiles ==
    MakeFiles([i \in 1..Len(TestOffsets) |->
                  HoursBefore(Date(2024, 3, 15, 12, 0), TestOffsets[i])])

Reverse(s) == [i \in 1..Len(s) |-> s[Len(s) + 1 - i]]

\* files at now, now-1h, now-2h and now-3h, in every order
HourlyFiles ==
    {MakeFiles([i \in 1..4 |-> HoursBefore(n, q[i] - 1)]) :
        n \in ScenarioNows, q \in Permutations(1..4)}

\* the four files of the basic grouping test, in every order
GroupingFiles ==
    {MakeFiles([i \in 1..4 |->
                   Date(2024, 3, 15, 12, 0) - GroupingOffsets[q[i]]]) :
        q \in Permutations(1..4)}

\* the keep-count 2 of the basic grouping test at the hourly tier, and
\* smaller keep-counts with a daily tier behind them
GroupingPolicies ==
    {[Hourly |-> h, Daily |-> d, Weekly |-> 0, Monthly |-> 0, Yearly |-> 0] :
        h \in 0..2, d \in 0..1}

ScenarioInputs ==
    ({[Hourly |-> 2, Daily |-> 0, Weekly |-> 0, Monthly |-> 0, Yearly |-> 0]}
        \X HourlyFiles)
      \cup ({TestPolicy} \X {<<>>, TestFiles, Reverse(TestFiles)})
      \cup (GroupingPolicies \X GroupingFiles)

InitScenario ==
    /\ variant = "calendar"
    /\ now \in Nows
    /\ \E in \in ScenarioInputs :
          /\ policy = in[1]
          /\ files = in[2]
    /\ given = files
    /\ run = 1
    /\ pc = "call"
    /\ hourlyFiles = NoResult
    /\ dailyFiles = NoResult
    /\ weeklyFiles = NoResult
    /\ monthlyFiles = NoResult
    /\ yearlyFiles = NoResult
    /\ candidates = NoCandidates
    /\ toDelete = <<>>
    /\ err = NilErr
    /\ pruned = <<>>
    /\ ctxDone = FALSE
    /\ disk = NoDisk
    /\ dryRun = FALSE
    /\ k = 1
    /\ calls = <<>>
    /\ result = NilErr
    /\ cfg = NoConfig
    /\ maxDuration = NoDuration
    /\ grouper = NoGrouper
    /\ periodGroups = NoGroups

NextScenario == ApplyEmpty \/ ApplyCalendar \/ Reapply

SpecScenario == InitScenario /\ [][NextScenario]_vars

----------------------------------------------------------------------------
(* The prune command: configuration *)

\* the retention blocks of the configuration files tried: the one of the
\* command's test, keep nothing, and one positive count at either end
ConfigRetentions ==
    {[Hourly |-> 2, Daily |-> 1, Weekly |-> 0, Monthly |-> 0, Yearly |-> 0],
     [Hourly |-> 0, Daily |-> 0, Weekly |-> 0, Monthly |-> 0, Yearly |-> 0],
     [Hourly |-> 1, Daily |-> 0, Weekly |-> 0, Monthly |-> 0, Yearly |-> 0],
     [Hourly |-> 0, Daily |-> 0, Weekly |-> 0, Monthly |-> 0, Yearly |-> 1]}

NegativeRetentions ==
    {[Hourly |-> -1, Daily |-> 0, Weekly |-> 0, Monthly |-> 0, Yearly |-> 0],
     [Hourly |-> 0, Daily |-> -1, Weekly |-> 0, Monthly |-> 0, Yearly |-> 0],
     [Hourly |-> 0, Daily |-> 0, Weekly |-> -1, Monthly |-> 0, Yearly |-> 0],
     [Hourly |-> 0, Daily |-> 0, Weekly |-> 0, Monthly |-> -1, Yearly |-> 0],
     [Hourly |-> 0, Daily |-> 0, Weekly |-> 0, Monthly |-> 0, Yearly |-> -1]}

\* a configuration file: whether viper can read it, and what it holds
ConfigFiles ==
    [readable : BOOLEAN,
     Retention : ConfigRetentions \cup NegativeRetentions,
     FilePattern : {"", "backup-{year}-{month}-{day}-{hour}-{minute}.tar.gz"},
     Directory : {"", "/backups"},
     DryRun : BOOLEAN]

\* Validate without its last check
Validate_NoDirectory(c) ==
    IF c.Retention.Hourly < 0
    THEN <<"hourly retention must be non-negative">>
    ELSE IF c.Retention.Daily < 0
    THEN <<"daily retention must be non-negative">>
    ELSE IF c.Retention.Weekly < 0
    THEN <<"weekly retention must be non-negative">>
    ELSE IF c.Retention.Monthly < 0
    THEN <<"monthly retention must be non-negative">>
    ELSE IF c.Retention.Yearly < 0
    THEN <<"yearly retention must be non-negative">>
    ELSE IF c.FilePattern = ""
    THEN <<"file pattern must be specified">>
    ELSE NilErr

\* Config.Validate: the first failed check, or nil
Validate(c) ==
    IF c.Retention.Hourly < 0
    THEN <<"hourly retention must be non-negative">>
    ELSE IF c.Retention.Daily < 0
    THEN <<"daily retention must be non-negative">>
    ELSE IF c.Retention.Weekly < 0
    THEN <<"weekly retention must be non-negative">>
    ELSE IF c.Retention.Monthly < 0
    THEN <<"monthly retention must be non-negative">>
    ELSE IF c.Retention.Yearly < 0
    THEN <<"yearly retention must be non-negative">>
    ELSE IF c.FilePattern = ""
    THEN <<"file pattern must be specified">>
    ELSE IF c.Directory = ""
    THEN <<"directory must be specified">>
    ELSE NilErr

\* the error of LoadConfig
LoadConfig(c) ==
    IF ~c.readable
    THEN <<"failed to read config file">>
    ELSE IF Validate(c) # NilErr
    THEN <<"invalid config">> \o Validate(c)
    ELSE NilErr

\* fmt.Errorf("...: %w", err)
Wrap(msg, e) == <<msg>> \o e

----------------------------------------------------------------------------
(* The prune command: the directory *)

\* what a path of the directory is: a regular file the user may write and
\* remove; a regular file without write permission; a regular file whose
\* removal the system refuses; or nothing, once removed
ListedKinds == {"regular", "readonly", "stuck"}

KindRank(kd) ==
    CASE kd = "regular" -> 1
      [] kd = "readonly" -> 2
      [] kd = "stuck" -> 3

\* entries in the order WalkDir visits them: by name, so oldest first
WalkOrder(d) ==
    \A i, j \in 1..Len(d) :
        i < j =>
            \/ d[i].Timestamp < d[j].Timestamp
            \/ /\ d[i].Timestamp = d[j].Timestamp
               /\ KindRank(d[i].kind) <= KindRank(d[j].kind)

Dirs ==
    UNION {{d \in [1..n -> [Timestamp : PruneTimes, kind : ListedKinds]] :
               WalkOrder(d)} : n \in 0..MaxFiles}

\* the records processFile appends: regular files whose name matches
Listed(d) ==
    {[Path |-> q, Timestamp |-> d[q].Timestamp] :
        q \in {x \in 1..Len(d) : d[x].kind \in ListedKinds}}

\* isRegularFile, were it to skip the test of write access
isRegularFile_NoAccessTest(d, path) ==
    IF d[path].kind = "absent"
    THEN <<"failed to delete file", "no such file or directory">>
    ELSE IF d[path].kind \notin ListedKinds THEN <<"not a regular file">>
    ELSE NilErr

\* Manager.isRegularFile
isRegularFile(d, path) ==
    IF d[path].kind = "absent"
    THEN <<"failed to delete file", "no such file or directory">>
    ELSE IF d[path].kind \notin ListedKinds THEN <<"not a regular file">>
    ELSE IF d[path].kind = "readonly" THEN <<"access denied">>
    ELSE NilErr

\* DeleteFile, were it to overlook the dry-run flag
DeleteFile_IgnoreDryRun(done, d, f, dry) ==
    IF done THEN [err |-> <<Canceled>>, disk |-> d]
    ELSE IF isRegularFile(d, f.Path) # NilErr
    THEN [err |-> isRegularFile(d, f.Path), disk |-> d]
    ELSE IF d[f.Path].kind = "stuck"
    THEN [err |-> <<"failed to delete file", "operation not permitted">>,
          disk |-> d]
    ELSE [err |-> NilErr,
          disk |-> [d EXCEPT ![f.Path].kind = "absent"]]

\* Manager.DeleteFile: the error returned and the directory afterwards
DeleteFile(done, d, f, dry) ==
    IF done THEN [err |-> <<Canceled>>, disk |-> d]
    ELSE IF dry THEN [err |-> NilErr, disk |-> d]
    ELSE IF isRegularFile(d, f.Path) # NilErr
    THEN [err |-> isRegularFile(d, f.Path), disk |-> d]
    ELSE IF d[f.Path].kind = "stuck"
    THEN [err |-> <<"failed to delete file", "operation not permitted">>,
          disk |-> d]
    ELSE [err |-> NilErr,
          disk |-> [d EXCEPT ![f.Path].kind = "absent"]]

----------------------------------------------------------------------------
(* The prune command: RunE, one action per call it makes *)

ZeroRetention ==
    [Hourly |-> 0, Daily |-> 0, Weekly |-> 0, Monthly |-> 0, Yearly |-> 0]

InitPrune ==
    /\ variant = "calendar"
    /\ now \in Nows
    /\ policy = ZeroRetention
    /\ files = <<>>
    /\ given = <<>>
    /\ run = 1
    /\ pc = "loadConfig"
    /\ hourlyFiles = NoResult
    /\ dailyFiles = NoResult
    /\ weeklyFiles = NoResult
    /\ monthlyFiles = NoResult
    /\ yearlyFiles = NoResult
    /\ candidates = NoCandidates
    /\ toDelete = <<>>
    /\ err = NilErr
    /\ pruned = <<>>
    /\ ctxDone = FALSE
    /\ disk \in Dirs
    /\ dryRun = FALSE
    /\ k = 1
    /\ calls = <<>>
    /\ result = NilErr
    /\ cfg = NoConfig
    /\ maxDuration = NoDuration
    /\ grouper = NoGrouper
    /\ periodGroups = NoGroups

\* the context is cancelled while the command runs
Cancel ==
    /\ pc # "exit"
    /\ ~ctxDone
    /\ ctxDone' = TRUE
    /\ UNCHANGED <<variant, now, policy, files, given, run, pc, applyVars,
                   pruned, disk, dryRun, k, calls, result, cfg,
                   maxDuration, grouper, periodGroups>>

\* config.LoadConfig on the configuration file given
RunLoadConfig ==
    /\ pc = "loadConfig"
    /\ \E c \in ConfigFiles :
          /\ cfg' = c
          /\ IF LoadConfig(c) # NilErr
             THEN /\ result' = Wrap("failed to load config", LoadConfig(c))
                  /\ pc' = "exit"
                  /\ UNCHANGED <<policy, dryRun>>
             ELSE /\ policy' = c.Retention
                  /\ dryRun' = c.DryRun
                  /\ pc' = "listFiles"
                  /\ UNCHANGED result
    /\ UNCHANGED <<variant, now, files, given, run, applyVars, pruned,
                   ctxDone, disk, k, calls, maxDuration, grouper, periodGroups>>

\* fileManager.ListFiles, and the return when nothing is listed; the context
\* may also be cancelled while the walk is under way
RunListFiles ==
    /\ pc = "listFiles"
    /\ IF ctxDone
       THEN /\ result' = Wrap("failed to list files", <<Canceled>>)
            /\ pc' = "exit"
            /\ UNCHANGED <<files, given, ctxDone>>
       ELSE \/ \E s \in SortedOrders(Listed(disk)) :
                  /\ files' = s
                  /\ given' = s
                  /\ IF Len(s) = 0
                     THEN pc' = "exit" /\ result' = NilErr
                     ELSE pc' = "call" /\ UNCHANGED result
                  /\ UNCHANGED ctxDone
            \/ /\ ctxDone' = TRUE
               /\ result' = Wrap("failed to list files",
                                 <<"failed to list files", Canceled>>)
               /\ pc' = "exit"
               /\ UNCHANGED <<files, given>>
    /\ UNCHANGED <<variant, now, policy, run, applyVars, pruned, disk,
                   dryRun, k, calls, cfg,
                   maxDuration, grouper, periodGroups>>

\* the delete loop, were it to return the first error of DeleteFile
RunDeleteFile_AbortOnError ==
    /\ pc = "returned"
    /\ k <= Len(toDelete)
    /\ LET r == DeleteFile(ctxDone, disk, toDelete[k], dryRun)
       IN /\ disk' = r.disk
          /\ calls' = Append(calls, [file |-> toDelete[k], err |-> r.err])
          /\ IF r.err # NilErr
             THEN pc' = "exit" /\ result' = r.err
             ELSE UNCHANGED <<pc, result>>
    /\ k' = k + 1
    /\ UNCHANGED <<variant, now, policy, files, given, run, applyVars,
                   pruned, ctxDone, dryRun, cfg,
                   maxDuration, grouper, periodGroups>>

\* the delete loop, were it to range over the listing instead of the list
\* Apply returned
RunDeleteFile_OverListing ==
    /\ pc = "returned"
    /\ k <= Len(toDelete)
    /\ LET r == DeleteFile(ctxDone, disk, files[k], dryRun)
       IN /\ disk' = r.disk
          /\ calls' = Append(calls, [file |-> files[k], err |-> r.err])
    /\ k' = k + 1
    /\ UNCHANGED <<variant, now, policy, files, given, run, pc, applyVars,
                   pruned, ctxDone, dryRun, result, cfg,
                   maxDuration, grouper, periodGroups>>

\* one pass of the delete loop: DeleteFile on the next record; an error is
\* logged and the loop goes on
RunDeleteFile ==
    /\ pc = "returned"
    /\ k <= Len(toDelete)
    /\ LET r == DeleteFile(ctxDone, disk, toDelete[k], dryRun)
       IN /\ disk' = r.disk
          /\ calls' = Append(calls, [file |-> toDelete[k], err |-> r.err])
    /\ k' = k + 1
    /\ UNCHANGED <<variant, now, policy, files, given, run, pc, applyVars,
                   pruned, ctxDone, dryRun, result, cfg,
                   maxDuration, grouper, periodGroups>>

\* the loop is over: RunE returns nil
RunReturn ==
    /\ pc = "returned"
    /\ k > Len(toDelete)
    /\ result' = NilErr
    /\ pc' = "exit"
    /\ UNCHANGED <<variant, now, policy, files, given, run, applyVars,
                   pruned, ctxDone, disk, dryRun, k, calls, cfg,
                   maxDuration, grouper, periodGroups>>

NextPrune ==
    \/ Cancel
    \/ RunLoadConfig
    \/ RunListFiles
    \/ ApplyCalendar
    \/ RunDeleteFile
    \/ RunReturn

SpecPrune == InitPrune /\ [][NextPrune]_vars

----------------------------------------------------------------------------
(* The file manager on a directory of named entries *)

\* what a path may be: the three sorts of regular file, a directory, a
\* symbolic link, a named pipe, or nothing
AllKinds == ListedKinds \cup {"dir", "symlink", "pipe", "absent"}

\* the names a directory may hold, in the order WalkDir visits them, with
\* what the pattern backup-{year}{month}{day}{hour}{minute}.zip captures in
\* each: backup-202501010000.zip, backup-202501020000.zip,
\* backup-202513010000.zip (no such month) and not-a-backup.txt (no match)
FileNames ==
    <<[match |-> TRUE, year |-> 2025, month |-> 1, day |-> 1, hour |-> 0,
       minute |-> 0],
      [match |-> TRUE, year |-> 2025, month |-> 1, day |-> 2, hour |-> 0,
       minute |-> 0],
      [match |-> TRUE, year |-> 2025, month |-> 13, day |-> 1, hour |-> 0,
       minute |-> 0],
      [match |-> FALSE, year |-> 0, month |-> 0, day |-> 0, hour |-> 0,
       minute |-> 0]>>

\* the days of a month, as time.Parse checks the day against them
DaysIn(y, m) ==
    IF m = 2
    THEN (IF y % 4 = 0 /\ (y % 100 # 0 \/ y % 400 = 0) THEN 29 ELSE 28)
    ELSE IF m \in {4, 6, 9, 11} THEN 30 ELSE 31

\* Manager.parseTimestamp on the fields captured from a name
parseTimestamp(n) ==
    IF /\ n.month \in 1..12
       /\ n.day \in 1..DaysIn(n.year, n.month)
       /\ n.hour \in 0..23
       /\ n.minute \in 0..59
    THEN [err |-> NilErr,
          timestamp |-> Date(n.year, n.month, n.day, n.hour, n.minute)]
    ELSE [err |-> <<"failed to parse timestamp", "out of range">>,
          timestamp |-> 0]

\* processFile, were it to skip the test of the file mode
processFile_AnyMode(d, q) ==
    IF d[q].kind \in {"dir", "symlink"} THEN <<>>
    ELSE IF ~d[q].name.match THEN <<>>
    ELSE IF parseTimestamp(d[q].name).err # NilErr THEN <<>>
    ELSE <<[Path |-> q, Timestamp |-> parseTimestamp(d[q].name).timestamp]>>

\* Manager.processFile on entry q: the records it appends to the list
processFile(d, q) ==
    IF d[q].kind \in {"dir", "symlink"} THEN <<>>
    ELSE IF ~d[q].name.match THEN <<>>
    ELSE IF d[q].kind \notin ListedKinds THEN <<>>
    ELSE IF parseTimestamp(d[q].name).err # NilErr THEN <<>>
    ELSE <<[Path |-> q, Timestamp |-> parseTimestamp(d[q].name).timestamp]>>

\* filepath.WalkDir from entry q on: the entries that exist, in name order
RECURSIVE WalkDir(_, _)
WalkDir(d, q) ==
    IF q > Len(d) THEN <<>>
    ELSE IF d[q].kind = "absent" THEN WalkDir(d, q + 1)
    ELSE processFile(d, q) \o WalkDir(d, q + 1)

\* Manager.ListFiles: every outcome of a call.  `cancelled` tells that the
\* context was cancelled while the walk was under way
ListFiles(done, exists, d) ==
    IF done
    THEN {[files |-> <<>>, err |-> <<Canceled>>, cancelled |-> FALSE]}
    ELSE IF ~exists
    THEN {[files |-> <<>>,
           err |-> <<"failed to list files", "no such file or directory">>,
           cancelled |-> FALSE]}
    ELSE {[files |-> s, err |-> NilErr, cancelled |-> FALSE] :
             s \in SortFunc(WalkDir(d, 1))}
           \cup {[files |-> <<>>,
                  err |-> <<"failed to list files", Canceled>>,
                  cancelled |-> TRUE]}

\* the directories the manager is tried on
ManagerDirs ==
    {d \in [1..Len(FileNames) -> [kind : AllKinds, name : Range(FileNames)]] :
        \A q \in 1..Len(FileNames) : d[q].name = FileNames[q]}

ManagerConfig(directory) ==
    [readable |-> TRUE,
     Retention |-> [Hourly |-> 0, Daily |-> 0, Weekly |-> 0, Monthly |-> 0,
                    Yearly |-> 0],
     FilePattern |-> "backup-{year}{month}{day}{hour}{minute}.zip",
     Directory |-> directory,
     DryRun |-> FALSE]

\* no call made yet
NoFile == [Path |-> 0, Timestamp |-> 0]

InitManager ==
    /\ variant = "calendar"
    /\ now \in Nows
    /\ policy = NoConfig.Retention
    /\ files = <<>>
    /\ given = <<>>
    /\ run = 1
    /\ pc = "manager"
    /\ hourlyFiles = NoResult
    /\ dailyFiles = NoResult
    /\ weeklyFiles = NoResult
    /\ monthlyFiles = NoResult
    /\ yearlyFiles = NoResult
    /\ candidates = NoCandidates
    /\ toDelete = <<>>
    /\ err = NilErr
    /\ pruned = <<>>
    /\ ctxDone = FALSE
    /\ disk \in ManagerDirs
    /\ dryRun = FALSE
    /\ k = 1
    /\ calls = <<>>
    /\ result = NilErr
    /\ maxDuration = NoDuration
    /\ grouper = NoGrouper
    /\ periodGroups = NoGroups
    /\ \/ cfg = ManagerConfig("/backups")
       \/ /\ cfg = ManagerConfig("/missing")
          /\ \A q \in 1..Len(disk) : disk[q].kind = "absent"

\* a caller lists the directory; `calls` keeps the last call made
ManagerListFiles ==
    /\ pc = "manager"
    /\ \E o \in ListFiles(ctxDone, cfg.Directory = "/backups", disk) :
          /\ files' = o.files
          /\ result' = o.err
          /\ ctxDone' = (ctxDone \/ o.cancelled)
    /\ calls' = <<[op |-> "ListFiles", file |-> NoFile, dry |-> FALSE,
                   done |-> ctxDone]>>
    /\ UNCHANGED <<variant, now, policy, given, run, pc, applyVars, pruned,
                   disk, dryRun, k, cfg,
                   maxDuration, grouper, periodGroups>>

\* a caller deletes some path of the directory, listed or not
ManagerDeleteFile ==
    /\ pc = "manager"
    /\ \E q \in 1..Len(disk), dry \in BOOLEAN :
          LET f == [Path |-> q, Timestamp |-> 0]
              r == DeleteFile(ctxDone, disk, f, dry)
          IN /\ disk' = r.disk
             /\ result' = r.err
             /\ calls' = <<[op |-> "DeleteFile", file |-> f, dry |-> dry,
                            done |-> ctxDone]>>
    /\ UNCHANGED <<variant, now, policy, files, given, run, pc, applyVars,
                   pruned, ctxDone, dryRun, k, cfg,
                   maxDuration, grouper, periodGroups>>

NextManager == Cancel \/ ManagerListFiles \/ ManagerDeleteFile

SpecManager == InitManager /\ [][NextManager]_vars

----------------------------------------------------------------------------
(* Config.GetRetentionDuration *)

\* the largest whole number of hours an int64 of nanoseconds holds:
\* math.MaxInt64 / time.Hour, rounded down
MaxInt64Hours == 2562047

\* the keep-counts GetRetentionDuration is tried on: those of its tests, an
\* unvalidated negative one, and the two either side of the largest number
\* of years that fits in a time.Duration
RetentionCounts == {-1, 0, 1, 2, 7, 24, 48, 292, 293}

\* the nominal period of a tier in hours
PeriodHours(tier) == Period(tier) \div HOUR

\* time.Duration(count) * period, for a product below 3 * 2^63 ns: past
\* math.MaxInt64 the int64 product wraps round once and is negative
DurationOf(count, tier) ==
    LET h == count * PeriodHours(tier)
    IN [hours |-> h, wraps |-> IF h > MaxInt64Hours THEN 1 ELSE 0]

\* a > b on two such durations
DurationGreater(a, b) ==
    IF a.wraps = b.wraps THEN a.hours > b.hours ELSE a.wraps < b.wraps

\* one `if` of GetRetentionDuration after the first
RaiseTo(count, tier, max) ==
    IF count > 0 /\ DurationGreater(DurationOf(count, tier), max)
    THEN DurationOf(count, tier)
    ELSE max

\* Config.GetRetentionDuration
GetRetentionDuration(c) ==
    LET y == IF c.Retention.Yearly > 0
             THEN DurationOf(c.Retention.Yearly, "yearly")
             ELSE NoDuration
        m == RaiseTo(c.Retention.Monthly, "monthly", y)
        w == RaiseTo(c.Retention.Weekly, "weekly", m)
        d == RaiseTo(c.Retention.Daily, "daily", w)
    IN RaiseTo(c.Retention.Hourly, "hourly", d)

InitRetention ==
    /\ variant = "calendar"
    /\ now \in Nows
    /\ policy = NoConfig.Retention
    /\ files = <<>>
    /\ given = <<>>
    /\ run = 1
    /\ pc = "config"
    /\ hourlyFiles = NoResult
    /\ dailyFiles = NoResult
    /\ weeklyFiles = NoResult
    /\ monthlyFiles = NoResult
    /\ yearlyFiles = NoResult
    /\ candidates = NoCandidates
    /\ toDelete = <<>>
    /\ err = NilErr
    /\ pruned = <<>>
    /\ ctxDone = FALSE
    /\ disk = NoDisk
    /\ dryRun = FALSE
    /\ k = 1
    /\ calls = <<>>
    /\ result = NilErr
    /\ \E r \in [Hourly : RetentionCounts, Daily : RetentionCounts,
                Weekly : RetentionCounts, Monthly : RetentionCounts,
                Yearly : RetentionCounts] :
          cfg = [NoConfig EXCEPT !.Retention = r]
    /\ maxDuration = NoDuration
    /\ grouper = NoGrouper
    /\ periodGroups = NoGroups

\* a caller asks for the retention duration of the configuration
CallGetRetentionDuration ==
    /\ pc = "config"
    /\ maxDuration' = GetRetentionDuration(cfg)
    /\ pc' = "duration"
    /\ UNCHANGED <<variant, now, policy, files, given, run, applyVars,
                   pruned, ctxDone, disk, dryRun, k, calls, result, cfg,
                   grouper, periodGroups>>

NextRetention == CallGetRetentionDuration

SpecRetention == InitRetention /\ [][NextRetention]_vars

----------------------------------------------------------------------------
(* groupFilesByTimePeriod called on its own, with each bucket function *)

InitGroup ==
    /\ variant = "calendar"
    /\ now \in Nows
    /\ policy = NoConfig.Retention
    /\ files \in Inputs
    /\ given = files
    /\ run = 1
    /\ pc = "group"
    /\ hourlyFiles = NoResult
    /\ dailyFiles = NoResult
    /\ weeklyFiles = NoResult
    /\ monthlyFiles = NoResult
    /\ yearlyFiles = NoResult
    /\ candidates = NoCandidates
    /\ toDelete = <<>>
    /\ err = NilErr
    /\ pruned = <<>>
    /\ ctxDone = FALSE
    /\ disk = NoDisk
    /\ dryRun = FALSE
    /\ k = 1
    /\ calls = <<>>
    /\ result = NilErr
    /\ cfg = NoConfig
    /\ maxDuration = NoDuration
    /\ grouper \in Range(Tiers)
    /\ periodGroups = NoGroups

\* groupFilesByTimePeriod(files, grouper) with GroupByHour, GroupByDay,
\* GroupByWeek, GroupByMonth or GroupByYear
CallGroupFilesByTimePeriod ==
    /\ pc = "group"
    /\ periodGroups' \in
          groupFilesByTimePeriod(files, KeyFn(variant, grouper, files, now))
    /\ pc' = "grouped"
    /\ UNCHANGED <<variant, now, policy, files, given, run, applyVars,
                   pruned, ctxDone, disk, dryRun, k, calls, result, cfg,
                   maxDuration, grouper>>

NextGroup == CallGroupFilesByTimePeriod

SpecGroup == InitGroup /\ [][NextGroup]_vars

----------------------------------------------------------------------------
(* Properties of Policy.Apply *)

TierResult(t) ==
    CASE t = "hourly" -> hourlyFiles
      [] t = "daily" -> dailyFiles
      [] t = "weekly" -> weeklyFiles
      [] t = "monthly" -> monthlyFiles
      [] t = "yearly" -> yearlyFiles

\* the records selected at some tier
Retained ==
    hourlyFiles.selected \o dailyFiles.selected \o weeklyFiles.selected
      \o monthlyFiles.selected \o yearlyFiles.selected

NoDuplicates(s) == Cardinality(Range(s)) = Len(s)

\* C1: conservation.  When Apply has returned, every record of the input is
\* either selected at some tier or in the returned deletion list, never both;
\* the deletion list has no duplicate and no record that was not in the input.
C1_Conservation ==
    pc = "returned" =>
        /\ Range(Retained) \cup Range(toDelete) = Range(given)
        /\ Range(Retained) \cap Range(toDelete) = {}
        /\ NoDuplicates(toDelete)
        /\ NoDuplicates(Retained)

C1_Witness ==
    /\ pc = "returned"
    /\ Len(given) = 3
    /\ Retained # <<>>
    /\ yearlyFiles.unselected # <<>>
    /\ Len(toDelete) > Len(yearlyFiles.unselected)

\* the bucket of tier t that record s falls in, among the records of set S
CalendarBucket(t, s, S) ==
    {f \in S : KeyOf("calendar", t, f, now) = KeyOf("calendar", t, s, now)}

Latest(f, S) == \A g \in S : g.Timestamp <= f.Timestamp

\* C2 as claimed: for every tier and every bucket of the input in which that
\* tier selected a record, exactly one record of the bucket is retained
\* overall and it has the latest timestamp of the bucket's input records.
C2_OnePerInputBucket ==
    (pc = "returned" /\ variant = "calendar") =>
        \A t \in Range(Tiers) : \A s \in Range(TierResult(t).selected) :
            LET B == CalendarBucket(t, s, Range(given))
            IN /\ Cardinality(B \cap Range(Retained)) = 1
               /\ \A f \in B \cap Range(Retained) : Latest(f, B)

\* C2 amended: for every tier and every bucket of that tier's candidates in
\* which the tier selected a record, exactly one candidate of the bucket is
\* retained overall, and it has the latest timestamp of the bucket's
\* candidates; at the hourly tier the candidates are the whole input.
C2_OnePerCandidateBucket ==
    (pc = "returned" /\ variant = "calendar") =>
        /\ candidates["hourly"] = given
        /\ \A t \in Range(Tiers) : \A s \in Range(TierResult(t).selected) :
              LET B == CalendarBucket(t, s, Range(candidates[t]))
              IN /\ B \cap Range(Retained) = {s}
                 /\ Latest(s, B)

C2_Witness ==
    /\ pc = "returned"
    /\ variant = "calendar"
    /\ \E s \in Range(dailyFiles.selected) :
          /\ Cardinality(CalendarBucket("daily", s,
                                        Range(candidates["daily"]))) > 1
          /\ CalendarBucket("daily", s, Range(hourlyFiles.selected)) # {}

\* C3: monotonic precedence.  A record selected at a tier is not a candidate
\* of any later tier, is in none of the later tier's three outputs, and is not
\* in the returned deletion list.
C3_MonotonicPrecedence ==
    pc = "returned" =>
        \A i \in 1..Len(Tiers) : \A r \in Range(TierResult(Tiers[i]).selected) :
            /\ r \notin Range(toDelete)
            /\ \A j \in (i + 1)..Len(Tiers) :
                  /\ r \notin Range(candidates[Tiers[j]])
                  /\ r \notin Range(TierResult(Tiers[j]).selected)
                  /\ r \notin Range(TierResult(Tiers[j]).toDelete)
                  /\ r \notin Range(TierResult(Tiers[j]).unselected)

C3_Witness ==
    /\ pc = "returned"
    /\ hourlyFiles.selected # <<>>
    /\ dailyFiles.selected # <<>>
    /\ weeklyFiles.unselected # <<>>

\* C4: idempotence.  Apply on the records the first Apply did not return for
\* deletion, with the same policy (and the same now), returns an empty list.
C4_Idempotence ==
    (pc = "returned" /\ run = 2) => toDelete = <<>>

C4_Witness ==
    /\ pc = "returned"
    /\ run = 2
    /\ pruned # <<>>
    /\ Len(given) >= 2
    /\ toDelete = <<>>

SameHour(f, g) == KeyOf("calendar", "hourly", f, now)
                    = KeyOf("calendar", "hourly", g, now)

\* C5: a tier whose keep-count is 0 selects nothing, deletes nothing and hands
\* its whole candidate set on as unselected.
C5_ZeroIsPassThrough ==
    (pc = "returned" /\ given # <<>>) =>
        \A t \in Range(Tiers) :
            KeepCount(policy, t) = 0 =>
                /\ TierResult(t).selected = <<>>
                /\ TierResult(t).toDelete = <<>>
                /\ Range(TierResult(t).unselected) = Range(candidates[t])
                /\ Len(TierResult(t).unselected) = Len(candidates[t])

\* hourly = 0 with two files in one hour: both reach the daily tier
C5_Witness ==
    /\ pc = "returned"
    /\ variant = "calendar"
    /\ policy.Hourly = 0
    /\ \E f, g \in Range(given) :
          /\ f # g
          /\ SameHour(f, g)
          /\ {f, g} \subseteq Range(candidates["daily"])
    /\ hourlyFiles.toDelete = <<>>

\* C6: in the calendar-aligned Apply, a record that shares its hour-bucket
\* with a strictly newer input record is always returned for deletion and is
\* selected at no tier.
C6_OlderInHourIsDeleted ==
    (pc = "returned" /\ variant = "calendar") =>
        \A f, g \in Range(given) :
            (SameHour(f, g) /\ g.Timestamp > f.Timestamp) =>
                /\ f \in Range(toDelete)
                /\ f \notin Range(Retained)

\* the older record is deleted by a coarser tier that selected the newer one
C6_Witness ==
    /\ pc = "returned"
    /\ variant = "calendar"
    /\ policy.Hourly = 0
    /\ \E f, g \in Range(given) :
          /\ SameHour(f, g)
          /\ g.Timestamp > f.Timestamp
          /\ g \in Range(weeklyFiles.selected)
          /\ f \in Range(weeklyFiles.toDelete)

\* C7: Apply leaves the caller's list as it was, record by record.
C7_InputNotMutated ==
    pc = "returned" => files = given

\* C8: Apply on an empty list returns an empty deletion list, and Apply never
\* returns an error.
C8_EmptyAndTotal ==
    pc = "returned" =>
        /\ err = NilErr
        /\ given = <<>> => toDelete = <<>>

C8_Witness ==
    /\ pc = "returned"
    /\ given = <<>>
    /\ run = 1
    /\ policy.Hourly = 1
    /\ toDelete = <<>>

----------------------------------------------------------------------------
(* The prune command under cancellation and failing deletes *)

\* some DeleteFile call of the loop found the context cancelled
DeleteSawCancel == \E i \in 1..Len(calls) : calls[i].err = <<Canceled>>

\* C9: once the context is cancelled no file is deleted any more, and the
\* prune command returns an error that is context.Canceled, whether
\* ListFiles or a DeleteFile call of the batch is the one that finds the
\* context cancelled.
C9_CancelAbortsAndPropagates ==
    [][/\ ctxDone => disk' = disk
       /\ (/\ pc' = "exit"
           /\ ctxDone
           /\ \/ pc = "listFiles"
              \/ pc = "returned" /\ DeleteSawCancel)
          => ErrorIs(result', Canceled)]_vars

\* the part of C9 the command does keep: nothing is removed once the
\* context is cancelled
C9_NoDeleteAfterCancel == [][ctxDone => disk' = disk]_vars

\* the part of C9 the command does keep: a context found cancelled by
\* ListFiles ends the command with an error that is context.Canceled
C9_CancelBeforeListing ==
    [][(pc = "listFiles" /\ ctxDone /\ pc' = "exit")
          => ErrorIs(result', Canceled)]_vars

\* a batch cut by a cancellation, after which the command returned nil
C9_CancelledMidBatch ==
    /\ pc = "exit"
    /\ DeleteSawCancel
    /\ \E i \in 1..Len(calls) : calls[i].err = NilErr /\ ~dryRun
    /\ result = NilErr

\* C10: a failed delete does not abort the batch: DeleteFile is called for
\* the records of the deletion list in list order, the command ends only
\* when every record of the list has been passed to it, whatever the
\* earlier calls returned, and a file a call removed stays removed.
C10_FailedDeleteContinues ==
    /\ Len(calls) <= Len(toDelete)
    /\ \A i \in 1..Len(calls) : calls[i].file = toDelete[i]
    /\ pc = "exit" => Len(calls) = Len(toDelete)
    /\ \A i \in 1..Len(calls) :
          (calls[i].err = NilErr /\ ~dryRun)
              => disk[calls[i].file.Path].kind = "absent"

\* a file is removed, the next delete fails, and a later one still removes
\* its file
C10_Witness ==
    /\ pc = "exit"
    /\ ~ctxDone
    /\ ~dryRun
    /\ \E h, i, j \in 1..Len(calls) :
          /\ h < i
          /\ i < j
          /\ calls[h].err = NilErr
          /\ calls[i].err # NilErr
          /\ calls[j].err = NilErr
          /\ disk[calls[h].file.Path].kind = "absent"
          /\ disk[calls[i].file.Path].kind # "absent"
          /\ disk[calls[j].file.Path].kind = "absent"

----------------------------------------------------------------------------
(* Dry run and invalid configuration *)

InvalidConfig(c) ==
    \/ ~c.readable
    \/ c.Retention.Hourly < 0
    \/ c.Retention.Daily < 0
    \/ c.Retention.Weekly < 0
    \/ c.Retention.Monthly < 0
    \/ c.Retention.Yearly < 0
    \/ c.FilePattern = ""
    \/ c.Directory = ""

\* C12: an invalid configuration is fatal before any deletion: LoadConfig
\* returns an error, the prune command returns an error that contains
\* "failed to load config", and no file is listed or deleted in that run.
C12_InvalidConfigIsFatal ==
    (pc # "loadConfig" /\ InvalidConfig(cfg)) =>
        /\ LoadConfig(cfg) # NilErr
        /\ pc = "exit"
        /\ result # NilErr
        /\ result[1] = "failed to load config"
        /\ files = <<>>
        /\ toDelete = <<>>
        /\ calls = <<>>
        /\ \A q \in 1..Len(disk) : disk[q].kind # "absent"

\* the command ended on a readable configuration with an empty directory
\* setting, with backup files in the directory
C12_Witness ==
    /\ pc = "exit"
    /\ cfg.readable
    /\ cfg.Directory = ""
    /\ cfg.FilePattern # ""
    /\ \A t \in Range(Tiers) : KeepCount(cfg.Retention, t) >= 0
    /\ Len(disk) >= 2
    /\ result = <<"failed to load config", "invalid config",
                  "directory must be specified">>

----------------------------------------------------------------------------
(* Documented scenarios *)

\* the timestamps of the records of a list
Stamps(s) == {s[i].Timestamp : i \in 1..Len(s)}

\* the paths of the records of a list
Paths(s) == {s[i].Path : i \in 1..Len(s)}

\* the latest timestamp of the list Apply was given
Newest == CHOOSE t \in Stamps(given) : \A u \in Stamps(given) : u <= t

\* the list given holds four files, at some instant and one, two and three
\* hours before it, and only the hourly keep-count is set, to 2
FourHourlyFiles ==
    /\ run = 1
    /\ Len(given) = 4
    /\ Stamps(given) = {HoursBefore(Newest, h) : h \in 0..3}
    /\ policy = [Hourly |-> 2, Daily |-> 0, Weekly |-> 0, Monthly |-> 0,
                 Yearly |-> 0]

\* C13: with files at now, now-1h, now-2h and now-3h, hourly=2 and every
\* other keep-count 0, Apply returns exactly the records at now-2h and
\* now-3h for deletion and retains the records at now and now-1h.
C13_HourlyKeepsTwo ==
    (pc = "returned" /\ FourHourlyFiles) =>
        /\ Len(toDelete) = 2
        /\ Stamps(toDelete) = {HoursBefore(Newest, 2), HoursBefore(Newest, 3)}
        /\ Stamps(hourlyFiles.selected) = {Newest, HoursBefore(Newest, 1)}
        /\ Retained = hourlyFiles.selected
        /\ Range(toDelete) \cup Range(Retained) = Range(given)

\* the four files were given oldest first and span a change of year
C13_Witness ==
    /\ pc = "returned"
    /\ FourHourlyFiles
    /\ Newest = Date(2024, 1, 1, 2, 0)
    /\ \A i \in 1..3 : given[i].Timestamp < given[i + 1].Timestamp
    /\ Stamps(toDelete) = {Date(2024, 1, 1, 0, 0), Date(2023, 12, 31, 23, 0)}

\* the list given holds two files of one hour-bucket with different
\* timestamps, and the hourly keep-count is 1
TwoFilesOneHour ==
    /\ Len(given) = 2
    /\ given[1].Timestamp # given[2].Timestamp
    /\ SameHour(given[1], given[2])
    /\ policy.Hourly = 1

\* the older and the newer record of a list of two
Older == IF given[1].Timestamp < given[2].Timestamp THEN given[1] ELSE given[2]

Newer == IF given[1].Timestamp < given[2].Timestamp THEN given[2] ELSE given[1]

\* C14: with two files in the same hour-bucket and hourly=1, the older of
\* the two is put in toDelete by the hourly tier itself, not carried to a
\* later tier, and the newer is the hourly tier's selected record, whatever
\* the other four keep-counts are.
C14_SameHourDemotion ==
    (pc = "returned" /\ TwoFilesOneHour) =>
        /\ hourlyFiles.selected = <<Newer>>
        /\ hourlyFiles.toDelete = <<Older>>
        /\ hourlyFiles.unselected = <<>>
        /\ \A t \in {"daily", "weekly", "monthly", "yearly"} :
              candidates[t] = <<>>
        /\ toDelete = <<Older>>

\* the two files were given oldest first and every later tier would have
\* kept one file
C14_Witness ==
    /\ pc = "returned"
    /\ TwoFilesOneHour
    /\ given[1] = Older
    /\ policy.Daily = 1
    /\ policy.Weekly = 1
    /\ policy.Monthly = 1
    /\ policy.Yearly = 1
    /\ toDelete = <<given[1]>>

\* the list given holds the sixteen files of the retention test, in some
\* order, and the policy is the test's
SixteenTestFiles ==
    /\ run = 1
    /\ Len(given) = Len(TestFiles)
    /\ Range(given) = Range(TestFiles)
    /\ policy = TestPolicy

\* the positions in the test's list of the files it expects to be deleted:
\* those named 2024-03-15-08-00, 2024-03-11, 2024-02-15, 2023-12-15,
\* 2023-03-15 and 2022-03-15
ExpectedToDelete == {4, 8, 12, 14, 15, 16}

\* C15: with policy hourly=2, daily=3, weekly=2, monthly=2, yearly=1 and the
\* sixteen files of the retention test, Apply returns exactly six records
\* for deletion: the 08:00 file of 2024-03-15, the 2024-03-11 file, the
\* 2024-02-15 file, the 2023-12-15 file, the 2023-03-15 file and the
\* 2022-03-15 file.
C15_SixteenFileTest ==
    (pc = "returned" /\ SixteenTestFiles) =>
        /\ err = NilErr
        /\ Len(toDelete) = 6
        /\ Paths(toDelete) = ExpectedToDelete

\* the test's own call: the files in the order the test lists them, each
\* tier having deleted or passed on what the test's comments say
C15_Witness ==
    /\ pc = "returned"
    /\ SixteenTestFiles
    /\ given = TestFiles
    /\ Paths(dailyFiles.toDelete) = {4}
    /\ Paths(weeklyFiles.toDelete) = {8}
    /\ Paths(monthlyFiles.toDelete) = {12}
    /\ Paths(yearlyFiles.unselected) = {14, 15, 16}
    /\ Len(Retained) = 10

\* the records of the list given that are not among its n newest
BeyondNewest(n) ==
    {f \in Range(given) :
        Cardinality({g \in Range(given) : g.Timestamp > f.Timestamp}) >= n}

SameDay(f, g) == KeyOf("calendar", "daily", f, now)
                   = KeyOf("calendar", "daily", g, now)

\* no two files share an hour-bucket and, the `hourly` newest set aside, no
\* two of the others share a day-bucket and there are at most `daily` of them
TiersHaveRoom ==
    /\ given # <<>>
    /\ \A i, j \in 1..Len(given) : i # j => ~SameHour(given[i], given[j])
    /\ \A f, g \in BeyondNewest(policy.Hourly) : f # g => ~SameDay(f, g)
    /\ Cardinality(BeyondNewest(policy.Hourly)) <= policy.Daily

----------------------------------------------------------------------------
(* Order of the input *)

\* every list the calendar-aligned Apply may return for a list and a policy
ApplyResults(fs, p) ==
    IF Len(fs) = 0 THEN {<<>>}
    ELSE UNION {UNION {UNION {UNION {
           {Collect(h, d, w, m, y) :
               y \in groupFilesByPeriod(m.unselected,
                       KeyFn("calendar", "yearly", m.unselected, now),
                       p.Yearly)} :
               m \in groupFilesByPeriod(w.unselected,
                       KeyFn("calendar", "monthly", w.unselected, now),
                       p.Monthly)} :
               w \in groupFilesByPeriod(d.unselected,
                       KeyFn("calendar", "weekly", d.unselected, now),
                       p.Weekly)} :
               d \in groupFilesByPeriod(h.unselected,
                       KeyFn("calendar", "daily", h.unselected, now),
                       p.Daily)} :
               h \in groupFilesByPeriod(fs,
                       KeyFn("calendar", "hourly", fs, now), p.Hourly)}

\* the records of a list in another order
Permuted(s, q) == [i \in 1..Len(s) |-> s[q[i]]]

DistinctTimestamps(s) ==
    \A i, j \in 1..Len(s) : i # j => s[i].Timestamp # s[j].Timestamp

\* C17: for an input whose timestamps are pairwise distinct, the set of
\* records Apply returns for deletion is the same for every permutation of
\* the input list.
C17_OrderIndependence ==
    (pc = "returned" /\ DistinctTimestamps(given)) =>
        \A q \in Permutations(1..Len(given)) :
            \A out \in ApplyResults(Permuted(given, q), policy) :
                Range(out) = Range(toDelete)

\* three files of different hours given in an order that is not newest
\* first, one of them deleted
C17_Witness ==
    /\ pc = "returned"
    /\ run = 1
    /\ Len(given) = 3
    /\ DistinctTimestamps(given)
    /\ given[1].Timestamp < given[3].Timestamp
    /\ given[3].Timestamp < given[2].Timestamp
    /\ Len(toDelete) = 1
    /\ Len(Retained) = 2

----------------------------------------------------------------------------
(* The file manager *)

ErrDeleteFile == "failed to delete file"

ErrNotRegularFile == "not a regular file"

ErrAccessDenied == "access denied"

\* the step is a DeleteFile call with dryRun false on a context that is not
\* cancelled
RealDelete ==
    /\ calls' # calls
    /\ calls'[1].op = "DeleteFile"
    /\ ~calls'[1].dry
    /\ ~calls'[1].done

Listable ==
    {q \in 1..Len(disk) :
        /\ disk[q].kind \in {"regular", "readonly", "stuck"}
        /\ disk[q].name.match
        /\ disk[q].name.month \in 1..12
        /\ disk[q].name.day \in 1..DaysIn(disk[q].name.year, disk[q].name.month)
        /\ disk[q].name.hour \in 0..23
        /\ disk[q].name.minute \in 0..59}

\* C19: ListFiles returns exactly the regular files under the directory
\* whose relative path matches the pattern and whose timestamp parses,
\* ordered by timestamp newest first; directories, symlinks, named pipes and
\* non-matching names are never in the result, and with an already-cancelled
\* context it returns an error that is context.Canceled and no list.
C19_ListFilesExact ==
    (calls # <<>> /\ calls[1].op = "ListFiles") =>
        /\ calls[1].done => (ErrorIs(result, Canceled) /\ files = <<>>)
        /\ (~ctxDone /\ cfg.Directory = "/backups") => result = NilErr
        /\ result # NilErr => files = <<>>
        /\ result = NilErr =>
              /\ Paths(files) = Listable
              /\ Len(files) = Cardinality(Listable)
              /\ \A i \in 1..Len(files) :
                    LET n == disk[files[i].Path].name
                    IN files[i].Timestamp
                         = Date(n.year, n.month, n.day, n.hour, n.minute)
              /\ \A i, j \in 1..Len(files) :
                    i < j => files[i].Timestamp >= files[j].Timestamp
              /\ \A i \in 1..Len(files) :
                    /\ disk[files[i].Path].kind
                         \notin {"dir", "symlink", "pipe", "absent"}
                    /\ disk[files[i].Path].name.match

\* two backups listed newest first, beside a regular file with no such
\* month in its name and a regular file whose name does not match
C19_Witness ==
    /\ calls # <<>>
    /\ calls[1].op = "ListFiles"
    /\ result = NilErr
    /\ Len(files) = 2
    /\ files[1].Path = 2
    /\ files[2].Path = 1
    /\ disk[3].kind = "regular"
    /\ disk[4].kind = "regular"

----------------------------------------------------------------------------
(* The two variants *)

\* two files either side of the turn of a month, a day apart, with `now`
\* later on the second day; one file is kept per month and one per year
MonthBoundaryInput ==
    /\ run = 1
    /\ now = Date(2024, 3, 1, 12, 15)
    /\ Len(given) = 2
    /\ Stamps(given) = {Date(2024, 3, 1, 10, 0), Date(2024, 2, 29, 9, 0)}
    /\ policy = [Hourly |-> 0, Daily |-> 0, Weekly |-> 0, Monthly |-> 1,
                 Yearly |-> 1]

\* C20: the duration-based variant and the calendar-aligned variant are not
\* equivalent: for two files either side of the turn of a month and a policy
\* that keeps one file per month and one per year, the calendar-aligned
\* Apply deletes nothing (the files are in different months, and the yearly
\* tier keeps the older one), while the duration-based Apply deletes the
\* older file (both are less than 30 days before now, in one bucket).
C20_VariantsDiffer ==
    (pc = "returned" /\ MonthBoundaryInput) =>
        /\ variant = "calendar" =>
              /\ toDelete = <<>>
              /\ Stamps(monthlyFiles.selected) = {Date(2024, 3, 1, 10, 0)}
              /\ Stamps(yearlyFiles.selected) = {Date(2024, 2, 29, 9, 0)}
        /\ variant = "duration" =>
              /\ Stamps(toDelete) = {Date(2024, 2, 29, 9, 0)}
              /\ Stamps(monthlyFiles.toDelete) = {Date(2024, 2, 29, 9, 0)}

\* the duration-based Apply has returned a deletion list that the
\* calendar-aligned Apply returns for no order of the same files
C20_Witness ==
    /\ pc = "returned"
    /\ variant = "duration"
    /\ MonthBoundaryInput
    /\ toDelete # <<>>
    /\ \A out \in ApplyResults(given, policy) : Range(out) # Range(toDelete)
    /\ ApplyResults(given, policy) = {<<>>}

----------------------------------------------------------------------------
(* The retention duration *)

\* keep-count times nominal period, in hours, of the tiers whose keep-count
\* is positive
Products(r) ==
    {KeepCount(r, t) * PeriodHours(t) : t \in {u \in Range(Tiers) :
                                                 KeepCount(r, u) > 0}}

\* the largest of them, 0 when there is none
MaxProduct(r) ==
    CHOOSE x \in Products(r) \cup {0} : \A z \in Products(r) \cup {0} : z <= x

\* C21: GetRetentionDuration returns the maximum, over the tiers whose
\* keep-count is positive, of keep-count times the tier's nominal period
\* (1 hour, 24 hours, 7 days, 30 days, 365 days), and 0 when all five
\* keep-counts are 0.
C21_MaxOfProducts ==
    pc = "duration" =>
        maxDuration = [hours |-> MaxProduct(cfg.Retention), wraps |-> 0]

\* what GetRetentionDuration does keep: the claimed maximum whenever every
\* product fits in a time.Duration
C21_MaxWhenRepresentable ==
    (pc = "duration" /\ MaxProduct(cfg.Retention) <= MaxInt64Hours) =>
        maxDuration = [hours |-> MaxProduct(cfg.Retention), wraps |-> 0]

\* 293 years kept and nothing else: the duration returned is negative
C21_Overflow ==
    /\ pc = "duration"
    /\ cfg.Retention = [Hourly |-> 0, Daily |-> 0, Weekly |-> 0,
                        Monthly |-> 0, Yearly |-> 293]
    /\ maxDuration.wraps = 1

----------------------------------------------------------------------------
(* The tiers of the cascade *)

\* C22: at every tier the three outputs selected, toDelete and unselected
\* are pairwise disjoint and their union is exactly that tier's candidate
\* set: no candidate is dropped, and no record is in two of the three
\* outputs.
C22_TierPartition ==
    (pc = "returned" /\ given # <<>>) =>
        \A t \in Range(Tiers) :
            LET r == TierResult(t)
            IN /\ Range(r.selected) \cap Range(r.toDelete) = {}
               /\ Range(r.selected) \cap Range(r.unselected) = {}
               /\ Range(r.toDelete) \cap Range(r.unselected) = {}
               /\ Range(r.selected) \cup Range(r.toDelete)
                    \cup Range(r.unselected) = Range(candidates[t])
               /\ Len(r.selected) + Len(r.toDelete) + Len(r.unselected)
                    = Len(candidates[t])

\* the daily tier split three candidates into one selected, one deleted and
\* one unselected record
C22_Witness ==
    /\ pc = "returned"
    /\ Len(candidates["daily"]) = 3
    /\ Len(dailyFiles.selected) = 1
    /\ Len(dailyFiles.toDelete) = 1
    /\ Len(dailyFiles.unselected) = 1

\* C23: the tiers run in the fixed order hourly, daily, weekly, monthly,
\* yearly: the candidate set of the hourly tier is the whole input, the
\* candidate set of each later tier is exactly the unselected output of the
\* tier before it, and the final deletion list is the concatenation of the
\* five tiers' toDelete outputs followed by the yearly tier's unselected
\* output.
C23_TierChain ==
    (pc = "returned" /\ given # <<>>) =>
        /\ Tiers = <<"hourly", "daily", "weekly", "monthly", "yearly">>
        /\ candidates["hourly"] = given
        /\ \A i \in 2..Len(Tiers) :
              candidates[Tiers[i]] = TierResult(Tiers[i - 1]).unselected
        /\ toDelete = hourlyFiles.toDelete \o dailyFiles.toDelete
                        \o weeklyFiles.toDelete \o monthlyFiles.toDelete
                        \o yearlyFiles.toDelete \o yearlyFiles.unselected

\* a record went down the whole chain: unselected at every tier, and last in
\* the deletion list behind a record the hourly tier deleted
C23_Witness ==
    /\ pc = "returned"
    /\ Len(toDelete) = 2
    /\ hourlyFiles.toDelete = <<toDelete[1]>>
    /\ yearlyFiles.unselected = <<toDelete[2]>>
    /\ \A t \in Range(Tiers) : toDelete[2] \in Range(candidates[t])
    /\ Retained # <<>>

----------------------------------------------------------------------------
(* Properties of groupFilesByTimePeriod *)

\* the groups laid end to end
RECURSIVE Flatten(_)
Flatten(gs) == IF gs = <<>> THEN <<>> ELSE Head(gs) \o Flatten(Tail(gs))

\* the bucket key of a record of the input under the bucket function in use
GroupKey(f) == KeyOf(variant, grouper, f, now)

\* C24: for each of the five bucket functions groupFilesByTimePeriod yields
\* one group per distinct bucket key: every group is non-empty and holds
\* records of one key, no two groups have the same key, the groups are in
\* descending time order, each group's first record has the group's latest
\* timestamp, and the concatenation of the groups is the input sorted
\* newest-first (nil for the empty input).
C24_OneGroupPerBucket ==
    pc = "grouped" =>
        LET gs == periodGroups
            n == Len(gs)
        IN /\ \A i \in 1..n : gs[i] # <<>>
           /\ \A i \in 1..n : \A f \in Range(gs[i]) :
                 GroupKey(f) = GroupKey(gs[i][1])
           /\ \A i, j \in 1..n :
                 i # j => GroupKey(gs[i][1]) # GroupKey(gs[j][1])
           /\ n = Cardinality({GroupKey(f) : f \in Range(given)})
           /\ \A i, j \in 1..n : i < j =>
                 \A f \in Range(gs[i]) : \A g \in Range(gs[j]) :
                    f.Timestamp > g.Timestamp
           /\ \A i \in 1..n : Latest(gs[i][1], Range(gs[i]))
           /\ IsSortedFunc(Flatten(gs))
           /\ Len(Flatten(gs)) = Len(given)
           /\ Range(Flatten(gs)) = Range(given)
           /\ given = <<>> => gs = NoGroups

\* three records given oldest first came back as a group of two and a group
\* of one
C24_Witness ==
    /\ pc = "grouped"
    /\ Len(given) = 3
    /\ given[1].Timestamp < given[2].Timestamp
    /\ given[2].Timestamp < given[3].Timestamp
    /\ Len(periodGroups) = 2
    /\ Len(periodGroups[1]) = 2
    /\ periodGroups[1][1] = given[3]

----------------------------------------------------------------------------
(* A tier that is full *)

\* the timestamps of a list, in its order
StampSeq(s) == [i \in 1..Len(s) |-> s[i].Timestamp]

\* the list given holds the four files of the basic grouping test, at 12:00,
\* 11:30, 10:30 and 10:00 of 2024-03-15, and the hourly keep-count is 2
BasicGrouping ==
    /\ run = 1
    /\ Len(given) = 4
    /\ Stamps(given) = {Date(2024, 3, 15, 12, 0), Date(2024, 3, 15, 11, 30),
                        Date(2024, 3, 15, 10, 30), Date(2024, 3, 15, 10, 0)}
    /\ policy.Hourly = 2

\* C25: once a tier has selected keep-count buckets, every later group goes
\* whole to unselected and none of its records to that tier's toDelete, even
\* when the group holds several records of one bucket, and unselected keeps
\* the newest-first order.  With files at 12:00, 11:30, 10:30 and 10:00 and
\* hourly keep-count 2 the hourly tier gives selected = [12:00, 11:30],
\* toDelete = [] and unselected = [10:30, 10:00].
C25_FullTierPassesGroupsOn ==
    pc = "returned" =>
        /\ \A t \in Range(Tiers) :
              LET r == TierResult(t)
                  kept == {KeyOf(variant, t, f, now) : f \in Range(r.selected)}
              IN /\ \A f \in Range(candidates[t]) :
                       KeyOf(variant, t, f, now) \notin kept =>
                          /\ f \in Range(r.unselected)
                          /\ f \notin Range(r.toDelete)
                 /\ \A f \in Range(r.unselected) :
                       /\ KeyOf(variant, t, f, now) \notin kept
                       /\ Len(r.selected) = KeepCount(policy, t)
                 /\ IsSortedFunc(r.unselected)
        /\ BasicGrouping =>
              /\ StampSeq(hourlyFiles.selected)
                   = <<Date(2024, 3, 15, 12, 0), Date(2024, 3, 15, 11, 30)>>
              /\ hourlyFiles.toDelete = <<>>
              /\ StampSeq(hourlyFiles.unselected)
                   = <<Date(2024, 3, 15, 10, 30), Date(2024, 3, 15, 10, 0)>>

\* the basic grouping test: the files in the order of the test; file1 and
\* file2 are selected and file3 and file4, both of the hour from 10:00,
\* are unselected
C25_Witness ==
    /\ pc = "returned"
    /\ BasicGrouping
    /\ StampSeq(given) = [i \in 1..4 |->
                             Date(2024, 3, 15, 12, 0) - GroupingOffsets[i]]
    /\ policy.Daily = 0
    /\ Paths(hourlyFiles.selected) = {1, 2}
    /\ hourlyFiles.toDelete = <<>>
    /\ Paths(hourlyFiles.unselected) = {3, 4}
    /\ KeyOf(variant, "hourly", given[3], now)
         = KeyOf(variant, "hourly", given[4], now)

----------------------------------------------------------------------------
(* How many records a tier and the cascade keep *)

Min(a, b) == IF a <= b THEN a ELSE b

\* the distinct bucket keys of tier t among that tier's candidates
Buckets(t) == {KeyOf(variant, t, f, now) : f \in Range(candidates[t])}

\* C26: at each tier the number of selected records equals
\* min(keep-count, number of distinct buckets among that tier's candidates),
\* so the number of files Apply retains never exceeds
\* hourly + daily + weekly + monthly + yearly.
C26_SelectedCount ==
    pc = "returned" =>
        /\ \A t \in Range(Tiers) :
              Len(TierResult(t).selected)
                 = Min(KeepCount(policy, t), Cardinality(Buckets(t)))
        /\ Len(Retained) <= policy.Hourly + policy.Daily + policy.Weekly
                              + policy.Monthly + policy.Yearly

\* the hourly tier had more buckets than its keep-count, the daily tier as
\* many, and the weekly tier had a keep-count but no candidate left
C26_Witness ==
    /\ pc = "returned"
    /\ Cardinality(Buckets("hourly")) > policy.Hourly
    /\ policy.Hourly > 0
    /\ Cardinality(Buckets("daily")) = policy.Daily
    /\ policy.Daily > 0
    /\ policy.Weekly > 0
    /\ candidates["weekly"] = <<>>
    /\ Len(Retained) = 2

----------------------------------------------------------------------------
(* The newest record, and the policy that keeps nothing *)

\* some keep-count of the policy is positive
SomeKeepCount == \E t \in Range(Tiers) : KeepCount(policy, t) > 0

\* C27: if the input is non-empty and at least one of the five keep-counts
\* is positive, a record with the latest timestamp of the input is retained;
\* when only one record has that timestamp it is not in the deletion list.
C27_NewestRetained ==
    (pc = "returned" /\ given # <<>> /\ SomeKeepCount) =>
        /\ \E f \in Range(Retained) : Latest(f, Range(given))
        /\ \A f \in Range(given) :
              (\A g \in Range(given) :
                  g # f => g.Timestamp < f.Timestamp)
                 => f \notin Range(toDelete)

\* the newest record was given last and fell through three tiers with
\* keep-count 0 before the monthly tier selected it
C27_Witness ==
    /\ pc = "returned"
    /\ Len(given) = 3
    /\ given[1].Timestamp < given[3].Timestamp
    /\ given[2].Timestamp < given[3].Timestamp
    /\ policy.Hourly = 0 /\ policy.Daily = 0 /\ policy.Weekly = 0
    /\ monthlyFiles.selected = <<given[3]>>
    /\ given[3] \notin Range(toDelete)

\* C28: with all five keep-counts equal to 0, Apply returns every input
\* record for deletion.
C28_ZeroPolicyDeletesAll ==
    (pc = "returned" /\ ~SomeKeepCount) =>
        /\ Range(toDelete) = Range(given)
        /\ Len(toDelete) = Len(given)
        /\ Retained = <<>>

\* three records of two days, all returned for deletion by the all-zero
\* policy, none deleted by a tier
C28_Witness ==
    /\ pc = "returned"
    /\ ~SomeKeepCount
    /\ Len(given) = 3
    /\ Cardinality(Buckets("daily")) = 2
    /\ Len(toDelete) = 3
    /\ \A t \in Range(Tiers) : TierResult(t).toDelete = <<>>
    /\ yearlyFiles.unselected = toDelete

----------------------------------------------------------------------------
(* What a prune run may remove *)

\* the paths of the directory that are gone
Removed == {q \in DOMAIN disk : disk[q].kind = "absent"}

\* the configuration was loaded, the context was never cancelled and the
\* directory holds no backup file
EmptyListing ==
    /\ cfg # NoConfig
    /\ LoadConfig(cfg) = NilErr
    /\ ~ctxDone
    /\ Len(disk) = 0
    /\ pc = "exit"

\* C29: a prune run removes from disk only files that are in the deletion
\* list Apply returned for that run's listing; every file Apply retained
\* still exists when the run ends; each record of the deletion list is
\* passed to DeleteFile at most once; and when the listing is empty the run
\* ends with success without applying the policy or deleting anything.
C29_PruneRemovesOnlyListed ==
    /\ Removed \subseteq Paths(toDelete)
    /\ Paths(toDelete) \subseteq Paths(given)
    /\ \A f \in Range(given) :
          f \notin Range(toDelete) => disk[f.Path].kind # "absent"
    /\ \A f \in Range(Retained) : disk[f.Path].kind # "absent"
    /\ Len(calls) <= Len(toDelete)
    /\ \A i \in 1..Len(calls) : calls[i].file = toDelete[i]
    /\ \A i, j \in 1..Len(calls) : i # j => calls[i].file # calls[j].file
    /\ pc \in {"call", "returned"} => files # <<>>
    /\ given = <<>> =>
          /\ calls = <<>>
          /\ candidates = NoCandidates
          /\ toDelete = <<>>
          /\ Removed = {}
    /\ EmptyListing => result = NilErr /\ given = <<>>

\* a run over three files ended with success: one retained and still there,
\* one removed, and one that could not be removed after one attempt
C29_Witness ==
    /\ pc = "exit"
    /\ result = NilErr
    /\ Len(given) = 3
    /\ Len(Retained) = 1
    /\ Len(calls) = 2
    /\ Cardinality(Removed) = 1
    /\ \E i \in 1..2 : calls[i].err # NilErr
    /\ ~dryRun
    /\ ~ctxDone

\* a run over an empty directory ended with success and nothing applied
C29_EmptyRun ==
    /\ EmptyListing
    /\ result = NilErr
    /\ candidates = NoCandidates
    /\ calls = <<>>

----------------------------------------------------------------------------
(* Records of equal timestamp *)

\* two records of the input have the same timestamp
SharedTimestamp == ~DistinctTimestamps(given)

\* every newest-first order of the input: the orders the sort may give,
\* which differ in the order of records of equal timestamp only
TieOrders == SortedOrders(Range(given))

\* C30: when several input records have the same timestamp, at most one of
\* them is retained, and the number of records Apply returns for deletion
\* is the same for every order the sort gives to equal timestamps; only the
\* identity of the survivor among them can change.
C30_EqualTimestamps ==
    (pc = "returned" /\ SharedTimestamp) =>
        /\ \A f, g \in Range(Retained) :
              f # g => f.Timestamp # g.Timestamp
        /\ \A s \in TieOrders :
              \A out \in ApplyResults(s, policy) :
                 /\ Len(out) = Len(toDelete)
                 /\ StampSeq(out) = StampSeq(toDelete)

\* two records of one timestamp and an older one: one of the two is kept
\* and the other deleted, and another order of the two keeps the other
C30_Witness ==
    /\ pc = "returned"
    /\ run = 1
    /\ Len(given) = 3
    /\ given[1].Timestamp = given[2].Timestamp
    /\ given[3].Timestamp < given[1].Timestamp
    /\ given[1] \in Range(Retained)
    /\ given[2] \in Range(toDelete)
    /\ \E s \in TieOrders :
          \E out \in ApplyResults(s, policy) : given[1] \in Range(out)

============================================================================
